---- MODULE Spec2Model ----
(***************************************************************************)
(* A model of scraper.py: main() calling scrape_govt_email_domains(),      *)
(* which drives a browser through rounds of LoadData(n) / wait / extract / *)
(* merge until the iteration cap, the no-progress threshold or an error    *)
(* ends the loop, releases the browser in its finally clause and returns   *)
(* the accumulated set of domains, which main() writes to two files.       *)
(*                                                                         *)
(* The browser and the web page are the environment: every call on the     *)
(* driver either returns or raises, and the page shown after a successful  *)
(* wait holds any set of domains from a small universe.                    *)
(***************************************************************************)
EXTENDS Integers, Sequences, FiniteSets, TLC

(***************************************************************************)
(* Bounds of the model.                                                    *)
(***************************************************************************)
\* max_iterations is drawn from 0..MaxIterations.
MaxIterations == 5
\* max_no_new_data is fixed at 1000 in the source (line 97); the model draws
\* it from 1..MaxNoNewData so that the no-progress stop is reachable within
\* MaxIterations rounds.
MaxNoNewData == 3

(***************************************************************************)
(* The domains the site can show, in ascending lexicographic order.        *)
(***************************************************************************)
DomainOrder ==
    << "@mfa.gov.sg", "@mha.gov.sg", "@moe.gov.sg", "@moh.gov.sg", "@mom.gov.sg" >>

Domains == { DomainOrder[i] : i \in 1..Len(DomainOrder) }

\* The sets of domains one round's extraction can yield (iteration_domains):
\* nothing, one domain, or one of two pairs of domains.
PageDomainSets ==
    { {} } \cup { { d } : d \in Domains }
           \cup { { "@moe.gov.sg", "@moh.gov.sg" }, { "@mfa.gov.sg", "@mha.gov.sg" } }

\* The exception classes the driver calls of a round can raise.
TriggerErrors == { "JavascriptException", "TimeoutException", "WebDriverException" }
WaitErrors    == { "TimeoutException", "WebDriverException" }
PageErrors    == { "WebDriverException" }

VARIABLES
    pc,                       \* position in main() / scrape_govt_email_domains()
    max_iterations,           \* parameter of scrape_govt_email_domains
    max_no_new_data,          \* local of scrape_govt_email_domains
    iteration,                \* local: the iteration index
    consecutive_no_new_data,  \* local: the no-progress counter
    all_domains,              \* local: the accumulated set
    iteration_domains,        \* local: the set extracted in the last successful round
    state,                    \* how the loop stands: RUNNING or the way it was left
    exc,                      \* the exception propagating out of the function, or "none"
    returned,                 \* <<>> until the function returns S, then <<S>>
    sessions,                 \* number of browser sessions created (webdriver.Chrome)
    quits,                    \* number of driver.quit() calls executed
    navigations,              \* number of driver.get(url) calls executed
    trigger_calls,            \* the arguments of the LoadData calls made, in order
    round_log,                \* one record per round begun: how it ended, what it extracted
    text_file,                \* email_domains.txt: <<>> unwritten, else <<lines>>
    json_file,                \* email_domains.json: <<>> unwritten, else <<array>>
    page_source,              \* local: the markup read from the browser in a round
    search_result_elements    \* local: the elements the extraction is scoped to

vars == << pc, max_iterations, max_no_new_data, iteration, consecutive_no_new_data,
           all_domains, iteration_domains, state, exc, returned, sessions, quits,
           navigations, trigger_calls, round_log, text_file, json_file,
           page_source, search_result_elements >>

loopVars == << iteration, consecutive_no_new_data, all_domains, iteration_domains, state >>
callVars == << exc, returned >>
driverVars == << sessions, quits, navigations >>
fileVars == << text_file, json_file >>
paramVars == << max_iterations, max_no_new_data >>
scopeVars == << page_source, search_result_elements >>

(***************************************************************************)
(* sorted(domains), lines 197 and 222: Python orders strings by their code *)
(* points, position by position, a proper prefix before the longer string. *)
(***************************************************************************)
\* The code points of the domains' characters.
CodePoints(d) ==
    CASE d = "@mfa.gov.sg" -> << 64, 109, 102,  97, 46, 103, 111, 118, 46, 115, 103 >>
      [] d = "@mha.gov.sg" -> << 64, 109, 104,  97, 46, 103, 111, 118, 46, 115, 103 >>
      [] d = "@moe.gov.sg" -> << 64, 109, 111, 101, 46, 103, 111, 118, 46, 115, 103 >>
      [] d = "@moh.gov.sg" -> << 64, 109, 111, 104, 46, 103, 111, 118, 46, 115, 103 >>
      [] d = "@mom.gov.sg" -> << 64, 109, 111, 109, 46, 103, 111, 118, 46, 115, 103 >>

RECURSIVE LexLess(_, _)
LexLess(a, b) ==
    IF b = << >> THEN FALSE
    ELSE IF a = << >> THEN TRUE
    ELSE IF Head(a) # Head(b) THEN Head(a) < Head(b)
    ELSE LexLess(Tail(a), Tail(b))

\* str.__lt__
StrLess(x, y) == LexLess(CodePoints(x), CodePoints(y))

\* A listing in descending order.
RECURSIVE sortedDescending(_)
sortedDescending(S) ==
    IF S = {} THEN << >>
    ELSE LET greatest == CHOOSE d \in S : \A e \in S \ { d } : StrLess(e, d)
         IN  << greatest >> \o sortedDescending(S \ { greatest })

RECURSIVE sorted(_)
sorted(S) ==
    IF S = {} THEN << >>
    ELSE LET least == CHOOSE d \in S : \A e \in S \ { d } : StrLess(d, e)
         IN  << least >> \o sorted(S \ { least })

(***************************************************************************)
(* Init: main() is about to call scrape_govt_email_domains().              *)
(***************************************************************************)
Init ==
    /\ pc = "setup"
    /\ max_iterations \in 0..MaxIterations
    /\ max_no_new_data \in 1..MaxNoNewData
    /\ iteration = 1
    /\ consecutive_no_new_data = 0
    /\ all_domains = {}
    /\ iteration_domains = {}
    /\ state = "NOT_STARTED"
    /\ exc = "none"
    /\ returned = << >>
    /\ sessions = 0
    /\ quits = 0
    /\ navigations = 0
    /\ trigger_calls = << >>
    /\ round_log = << >>
    /\ text_file = << >>
    /\ json_file = << >>
    /\ page_source = << >>
    /\ search_result_elements = << >>

(***************************************************************************)
(* setup_driver(), line 79: webdriver.Chrome either starts a session or    *)
(* raises, and then setup_driver raises RuntimeError to the caller; the    *)
(* try/finally has not been entered.                                       *)
(***************************************************************************)
SetupDriverOk ==
    /\ pc = "setup"
    /\ sessions' = sessions + 1
    /\ pc' = "get"
    /\ UNCHANGED << scopeVars, paramVars, loopVars, callVars, quits, navigations,
                    trigger_calls, round_log, fileVars >>

\* A failed launch that is swallowed: the function returns an empty set.
SetupDriverFailsQuietly ==
    /\ pc = "setup"
    /\ returned' = << {} >>
    /\ pc' = "main"
    /\ UNCHANGED << scopeVars, paramVars, loopVars, exc, driverVars,
                    trigger_calls, round_log, fileVars >>

SetupDriverFails ==
    /\ pc = "setup"
    /\ exc' = "RuntimeError"
    /\ pc' = "main"
    /\ UNCHANGED << scopeVars, paramVars, loopVars, returned, driverVars,
                    trigger_calls, round_log, fileVars >>

(***************************************************************************)
(* driver.get(url), lines 82-97: inside the try, outside the loop's own    *)
(* handlers.  On success the loop variables are initialised.               *)
(***************************************************************************)
GetOk ==
    /\ pc = "get"
    /\ navigations' = navigations + 1
    /\ iteration' = 1
    /\ consecutive_no_new_data' = 0
    /\ state' = "RUNNING"
    /\ pc' = "loop"
    /\ UNCHANGED << scopeVars, paramVars, all_domains, iteration_domains, callVars, sessions,
                    quits, trigger_calls, round_log, fileVars >>

\* A failed navigation that is treated like a round error: the function
\* returns the (empty) accumulated set.
GetFailsHandled ==
    /\ pc = "get"
    /\ navigations' = navigations + 1
    /\ pc' = "epilogue"
    /\ UNCHANGED << scopeVars, paramVars, loopVars, callVars, sessions, quits,
                    trigger_calls, round_log, fileVars >>

GetFails ==
    /\ pc = "get"
    /\ navigations' = navigations + 1
    /\ exc' = "WebDriverException"
    /\ pc' = "finally"
    /\ UNCHANGED << scopeVars, paramVars, loopVars, returned, sessions, quits,
                    trigger_calls, round_log, fileVars >>

(***************************************************************************)
(* while iteration <= max_iterations, line 99.                             *)
(***************************************************************************)
\* A loop test that stops one round early.
LoopTestOffByOne == iteration < max_iterations

LoopTest == iteration <= max_iterations

WhileEnter ==
    /\ pc = "loop"
    /\ LoopTest
    /\ pc' = "trigger"
    /\ UNCHANGED << scopeVars, paramVars, loopVars, callVars, driverVars,
                    trigger_calls, round_log, fileVars >>

WhileExit ==
    /\ pc = "loop"
    /\ ~LoopTest
    /\ state' = "STOPPED_CAP_REACHED"
    /\ pc' = "epilogue"
    /\ UNCHANGED << scopeVars, paramVars, iteration, consecutive_no_new_data, all_domains,
                    iteration_domains, callVars, driverVars,
                    trigger_calls, round_log, fileVars >>

(***************************************************************************)
(* iteration += 1, lines 160 and 172.                                      *)
(***************************************************************************)
\* An increment that was forgotten.
NextIterationStuck == iteration

\* An increment that skips an index.
NextIterationSkipping == iteration + 2

NextIteration == iteration + 1

(***************************************************************************)
(* The except clauses of the round, lines 162-175, in their order.         *)
(***************************************************************************)
\* A timeout that falls through to the generic handler.
HandlerOfTimeoutFatal(e) ==
    IF e = "JavascriptException" THEN "js" ELSE "generic"

\* A trigger error that is retried like a timeout.
HandlerOfTriggerRetried(e) ==
    IF e = "JavascriptException" \/ e = "TimeoutException" THEN "timeout" ELSE "generic"

\* An unclassified error that is retried like a timeout.
HandlerOfErrorRetried(e) ==
    IF e = "JavascriptException" THEN "js" ELSE "timeout"

HandlerOf(e) ==
    IF e = "JavascriptException" THEN "js"
    ELSE IF e = "TimeoutException" THEN "timeout"
    ELSE "generic"

\* A threshold test that needs one more round.
ThresholdExceeded(n) == n > max_no_new_data

\* consecutive_no_new_data >= max_no_new_data, lines 154 and 169.
ThresholdReached(n) == n >= max_no_new_data

\* The effect of exception e raised in the round body on the loop.
Handle(e) ==
    CASE HandlerOf(e) = "js" ->
            /\ state' = "STOPPED_FATAL"
            /\ pc' = "epilogue"
            /\ UNCHANGED << iteration, consecutive_no_new_data >>
      [] HandlerOf(e) = "timeout" ->
            /\ consecutive_no_new_data' = consecutive_no_new_data + 1
            /\ IF ThresholdReached(consecutive_no_new_data + 1)
               THEN /\ state' = "STOPPED_NO_PROGRESS"
                    /\ pc' = "epilogue"
                    /\ UNCHANGED iteration
               ELSE /\ iteration' = NextIteration
                    /\ pc' = "loop"
                    /\ UNCHANGED state
      [] OTHER ->
            /\ state' = "STOPPED_FATAL"
            /\ pc' = "epilogue"
            /\ UNCHANGED << iteration, consecutive_no_new_data >>

(***************************************************************************)
(* driver.execute_script("LoadData(n);"), lines 102-105.                   *)
(***************************************************************************)
TriggerOk ==
    /\ pc = "trigger"
    /\ trigger_calls' = Append(trigger_calls, iteration)
    /\ pc' = "wait"
    /\ UNCHANGED << scopeVars, paramVars, loopVars, callVars, driverVars, round_log, fileVars >>

TriggerRaises ==
    /\ pc = "trigger"
    /\ \E e \in TriggerErrors :
          /\ trigger_calls' = Append(trigger_calls, iteration)
          /\ round_log' = Append(round_log, [ outcome |-> e, domains |-> {} ])
          /\ Handle(e)
    /\ UNCHANGED << scopeVars, paramVars, all_domains, iteration_domains, callVars,
                    driverVars, fileVars >>

(***************************************************************************)
(* wait.until(visibility_of_element_located(...)), lines 107-110.          *)
(***************************************************************************)
WaitOk ==
    /\ pc = "wait"
    /\ pc' = "page"
    /\ UNCHANGED << scopeVars, paramVars, loopVars, callVars, driverVars,
                    trigger_calls, round_log, fileVars >>

WaitRaises ==
    /\ pc = "wait"
    /\ \E e \in WaitErrors :
          /\ round_log' = Append(round_log, [ outcome |-> e, domains |-> {} ])
          /\ Handle(e)
    /\ UNCHANGED << scopeVars, paramVars, all_domains, iteration_domains, callVars,
                    driverVars, trigger_calls, fileVars >>

(***************************************************************************)
(* driver.page_source and the extraction, lines 112-139, then the merge,   *)
(* lines 141-160.  found is the round's iteration_domains.                 *)
(***************************************************************************)
\* A test on the round's set instead of on its new domains.
NewDomainsUnfiltered(found) == found

NewDomains(found) == found \ all_domains

\* A merge that replaces the accumulated set.
MergedReplacing(found) == found

Merged(found) == all_domains \cup NewDomains(found)

Merge(found) ==
    /\ iteration_domains' = found
    /\ round_log' = Append(round_log, [ outcome |-> "ok", domains |-> found ])
    /\ IF NewDomains(found) # {}
       THEN /\ all_domains' = Merged(found)
            /\ consecutive_no_new_data' = 0
            /\ iteration' = NextIteration
            /\ pc' = "loop"
            /\ UNCHANGED state
       ELSE /\ consecutive_no_new_data' = consecutive_no_new_data + 1
            /\ UNCHANGED all_domains
            /\ IF ThresholdReached(consecutive_no_new_data + 1)
               THEN /\ state' = "STOPPED_NO_PROGRESS"
                    /\ pc' = "epilogue"
                    /\ UNCHANGED iteration
               ELSE /\ iteration' = NextIteration
                    /\ pc' = "loop"
                    /\ UNCHANGED state

RoundOk ==
    /\ pc = "page"
    /\ \E found \in PageDomainSets : Merge(found)
    /\ UNCHANGED << scopeVars, paramVars, callVars, driverVars, trigger_calls, fileVars >>

PageRaises ==
    /\ pc = "page"
    /\ \E e \in PageErrors :
          /\ round_log' = Append(round_log, [ outcome |-> e, domains |-> {} ])
          /\ Handle(e)
    /\ UNCHANGED << scopeVars, paramVars, all_domains, iteration_domains, callVars,
                    driverVars, trigger_calls, fileVars >>

(***************************************************************************)
(* After the loop, lines 177-182: return all_domains; the return value is  *)
(* held while the finally clause runs.                                     *)
(***************************************************************************)
ReturnAllDomains ==
    /\ pc = "epilogue"
    /\ returned' = << all_domains >>
    /\ pc' = "finally"
    /\ UNCHANGED << scopeVars, paramVars, loopVars, exc, driverVars,
                    trigger_calls, round_log, fileVars >>

(***************************************************************************)
(* finally: driver.quit(), lines 184-185; then the function returns or     *)
(* the pending exception propagates to main().                             *)
(***************************************************************************)
\* A release that only the normal return path performs.
QuitsOnReturnOnly == IF exc = "none" THEN quits + 1 ELSE quits

QuitsAfterFinally == quits + 1

Finally ==
    /\ pc = "finally"
    /\ quits' = QuitsAfterFinally
    /\ pc' = "main"
    /\ UNCHANGED << scopeVars, paramVars, loopVars, callVars, sessions, navigations,
                    trigger_calls, round_log, fileVars >>

(***************************************************************************)
(* main(), lines 209-225: an exception of the call propagates; a returned  *)
(* non-empty set is written to both files.                                 *)
(***************************************************************************)
\* The call raised; the call returned a set.
CallRaised == exc # "none"
CallReturned == exc = "none" /\ returned # << >>

MainPropagates ==
    /\ pc = "main"
    /\ CallRaised
    /\ pc' = "done"
    /\ UNCHANGED << scopeVars, paramVars, loopVars, callVars, driverVars,
                    trigger_calls, round_log, fileVars >>

\* A save that writes the text file only.
MainSavesTextOnly ==
    /\ pc = "main"
    /\ CallReturned
    /\ returned[1] # {}
    /\ text_file' = << sorted(returned[1]) >>
    /\ pc' = "done"
    /\ UNCHANGED << scopeVars, paramVars, loopVars, callVars, driverVars,
                    trigger_calls, round_log, json_file >>

MainSaves ==
    /\ pc = "main"
    /\ CallReturned
    /\ returned[1] # {}
    /\ text_file' = << sorted(returned[1]) >>
    /\ json_file' = << sorted(returned[1]) >>
    /\ pc' = "done"
    /\ UNCHANGED << scopeVars, paramVars, loopVars, callVars, driverVars,
                    trigger_calls, round_log >>

MainNothingFound ==
    /\ pc = "main"
    /\ CallReturned
    /\ returned[1] = {}
    /\ pc' = "done"
    /\ UNCHANGED << scopeVars, paramVars, loopVars, callVars, driverVars,
                    trigger_calls, round_log, fileVars >>

Next ==
    \/ SetupDriverOk
    \/ SetupDriverFails
    \/ GetOk
    \/ GetFails
    \/ WhileEnter
    \/ WhileExit
    \/ TriggerOk
    \/ TriggerRaises
    \/ WaitOk
    \/ WaitRaises
    \/ RoundOk
    \/ PageRaises
    \/ ReturnAllDomains
    \/ Finally
    \/ MainPropagates
    \/ MainSaves
    \/ MainNothingFound

Spec == Init /\ [][Next]_vars

(***************************************************************************)
(* The extraction, lines 43-63 and 112-139, on its own.                    *)
(*                                                                         *)
(* A string is a sequence of characters.  A character is a one-letter      *)
(* string; three characters outside ASCII are named: LONG_S is U+017F,     *)
(* I_DOT is U+0130 and COMB_DOT is U+0307.  Markup is a sequence of        *)
(* elements, each with an id attribute, a class attribute (<< >> when      *)
(* absent) and its text.                                                   *)
(***************************************************************************)
\* The texts of the inputs are built of at most MaxTokens tokens.
MaxTokens == 4
\* A page has at most MaxElements elements.
MaxElements == 2

\* str.lower() on the upper-case ASCII letters.
UpperToLower ==
    [ A |-> "a", B |-> "b", C |-> "c", D |-> "d", E |-> "e", F |-> "f",
      G |-> "g", H |-> "h", I |-> "i", J |-> "j", K |-> "k", L |-> "l",
      M |-> "m", N |-> "n", O |-> "o", P |-> "p", Q |-> "q", R |-> "r",
      S |-> "s", T |-> "t", U |-> "u", V |-> "v", W |-> "w", X |-> "x",
      Y |-> "y", Z |-> "z" ]

LowerLetters ==
    { "a", "b", "c", "d", "e", "f", "g", "h", "i", "j", "k", "l", "m",
      "n", "o", "p", "q", "r", "s", "t", "u", "v", "w", "x", "y", "z" }

Digits == { "0", "1", "2" }

\* str.lower() of one character: U+0130 lowers to "i" and U+0307.
LowerChar(c) ==
    IF c \in DOMAIN UpperToLower THEN << UpperToLower[c] >>
    ELSE IF c = "I_DOT" THEN << "i", "COMB_DOT" >>
    ELSE << c >>

\* A result that is not lowercased.
lowerMissing(str) == str

\* domain.lower(), line 63.
RECURSIVE lower(_)
lower(str) ==
    IF str = << >> THEN << >> ELSE LowerChar(Head(str)) \o lower(Tail(str))

\* \w of a str pattern: letters of any script, digits and the underscore.
IsWordChar(c) ==
    c \in LowerLetters \cup DOMAIN UpperToLower \cup Digits \cup { "_", "LONG_S", "I_DOT" }

\* [\w\.\-]
InClass(c) == IsWordChar(c) \/ c \in { ".", "-" }

\* A literal pattern character p against c under re.IGNORECASE: equal after
\* lowering, and U+017F also matches "s".
EqIgnoreCase(p, c) ==
    \/ LowerChar(p) = LowerChar(c)
    \/ LowerChar(p) = << "s" >> /\ c = "LONG_S"
    \/ LowerChar(c) = << "s" >> /\ p = "LONG_S"

\* The literal lit matches text at position i, ignoring case.
MatchesAt(text, i, lit) ==
    /\ i >= 1
    /\ i + Len(lit) - 1 <= Len(text)
    /\ \A k \in 1..Len(lit) : EqIgnoreCase(lit[k], text[i + k - 1])

\* \.gov\.sg
Suffix == << ".", "g", "o", "v", ".", "s", "g" >>

\* The end of the longest run of class characters that starts at i (i - 1 if
\* text[i] is no class character).
RECURSIVE ClassRunEnd(_, _)
ClassRunEnd(text, i) ==
    IF i <= Len(text) /\ InClass(text[i]) THEN ClassRunEnd(text, i + 1) ELSE i - 1

\* The end of the match of @[\w\.\-]+\.gov\.sg that starts at i, 0 if there is
\* none: the class repeats greedily and gives back characters until the
\* suffix matches, so the suffix is the last one in the run that leaves at
\* least one class character before it.
MatchEnd(text, i) ==
    IF text[i] # "@" THEN 0
    ELSE LET e == ClassRunEnd(text, i + 1)
             starts == { j \in (i + 2)..(e - Len(Suffix) + 1) : MatchesAt(text, j, Suffix) }
         IN  IF starts = {} THEN 0
             ELSE (CHOOSE j \in starts : \A k \in starts : k <= j) + Len(Suffix) - 1

\* re.findall(email_pattern, text, re.IGNORECASE), line 60: the matches left
\* to right, each search resuming where the last match ended.
RECURSIVE FindAll(_, _)
FindAll(text, i) ==
    IF i > Len(text) THEN << >>
    ELSE IF MatchEnd(text, i) > 0
         THEN << SubSeq(text, i, MatchEnd(text, i)) >> \o FindAll(text, MatchEnd(text, i) + 1)
         ELSE FindAll(text, i + 1)

\* soup.get_text(), line 59: the texts of the elements, in order.
RECURSIVE get_text(_)
get_text(markup) ==
    IF markup = << >> THEN << >> ELSE Head(markup).text \o get_text(Tail(markup))

\* extract_email_domains(html_content), lines 43-63.
extract_email_domains(markup) ==
    LET matches == FindAll(get_text(markup), 1)
    IN  { lower(matches[k]) : k \in 1..Len(matches) }

\* re.compile(...).search(value): the literal occurs somewhere in value.
Contains(value, lit) == \E i \in 1..Len(value) : MatchesAt(value, i, lit)

\* id=re.compile(r"SearchResult", re.IGNORECASE), line 118.
IdMatches(el) ==
    Contains(el.id, << "S", "e", "a", "r", "c", "h", "R", "e", "s", "u", "l", "t" >>)

\* class_=re.compile(r"result|search", re.IGNORECASE), line 125.
ClassMatches(el) ==
    \/ Contains(el.class, << "r", "e", "s", "u", "l", "t" >>)
    \/ Contains(el.class, << "s", "e", "a", "r", "c", "h" >>)

\* soup.find_all(id=...) and soup.find_all(class_=...): the matching elements,
\* in document order.
RECURSIVE FindAllById(_)
FindAllById(markup) ==
    IF markup = << >> THEN << >>
    ELSE (IF IdMatches(Head(markup)) THEN << Head(markup) >> ELSE << >>)
             \o FindAllById(Tail(markup))

RECURSIVE FindAllByClass(_)
FindAllByClass(markup) ==
    IF markup = << >> THEN << >>
    ELSE (IF ClassMatches(Head(markup)) THEN << Head(markup) >> ELSE << >>)
             \o FindAllByClass(Tail(markup))

(***************************************************************************)
(* The inputs.                                                             *)
(***************************************************************************)
Tokens ==
    << << "@" >>,
       << "m", "o", "e" >>,
       << "M", "O", "H" >>,
       << ".", "g", "o", "v", ".", "s", "g" >>,
       << ".", "G", "O", "V", ".", "S", "G" >>,
       << " " >>,
       << "-" >>,
       << ".", "g", "o", "v", ".", "LONG_S", "g" >>,
       << "I_DOT" >> >>

RECURSIVE Joined(_)
Joined(toks) ==
    IF toks = << >> THEN << >> ELSE Tokens[Head(toks)] \o Joined(Tail(toks))

Texts ==
    { Joined(toks) : toks \in UNION { [1..n -> 1..Len(Tokens)] : n \in 0..MaxTokens } }

\* The spec's example text.
ExampleText ==
    << "r", "e", "a", "c", "h", " ", "u", "s", " ", "a", "t", " ", "j",
       "o", "h", "n", "@", "m", "o", "e", ".", "g", "o", "v", ".", "s",
       "g", " ", "o", "r", " ", "J", "A", "N", "E", "@", "M", "O", "H",
       ".", "G", "O", "V", ".", "S", "G" >>

Plain(text) == [ id |-> << >>, class |-> << >>, text |-> text ]

\* Markup without attributes: one element holding the text.
PlainPages == { << Plain(text) >> : text \in Texts \cup { ExampleText } }

ElementIds ==
    { << >>,
      << "S", "e", "a", "r", "c", "h", "R", "e", "s", "u", "l", "t", "1" >>,
      << "f", "o", "o", "t", "e", "r" >> }

ElementClasses ==
    { << >>,
      << "r", "e", "s", "u", "l", "t", "-", "i", "t", "e", "m" >>,
      << "S", "e", "a", "r", "c", "h", "B", "o", "x" >>,
      << "n", "a", "v" >> }

ElementTexts ==
    { << "a", "@", "m", "o", "e", ".", "g", "o", "v", ".", "s", "g", " " >>,
      << "B", "@", "M", "O", "H", ".", "G", "O", "V", ".", "S", "G" >>,
      << ".", "g", "o", "v", ".", "s", "g" >> }

Elements ==
    { [ id |-> i, class |-> c, text |-> t ] :
         i \in ElementIds, c \in ElementClasses, t \in ElementTexts }

\* Pages of elements with attributes.
ScopedPages == UNION { [1..n -> Elements] : n \in 1..MaxElements }

(***************************************************************************)
(* ExtractSpec: one round's extraction of a page, lines 112-139.           *)
(***************************************************************************)
roundVars == << max_iterations, max_no_new_data, iteration, consecutive_no_new_data,
                all_domains, state, exc, returned, sessions, quits, navigations,
                trigger_calls, round_log, text_file, json_file >>

ExtractInit ==
    /\ pc = "page_source"
    /\ page_source \in PlainPages \cup ScopedPages
    /\ search_result_elements = << >>
    /\ iteration_domains = {}
    /\ max_iterations = 1
    /\ max_no_new_data = 1
    /\ iteration = 1
    /\ consecutive_no_new_data = 0
    /\ all_domains = {}
    /\ state = "RUNNING"
    /\ exc = "none"
    /\ returned = << >>
    /\ sessions = 1
    /\ quits = 0
    /\ navigations = 1
    /\ trigger_calls = << 1 >>
    /\ round_log = << >>
    /\ text_file = << >>
    /\ json_file = << >>

\* lines 117-119
FindById ==
    /\ pc = "page_source"
    /\ search_result_elements' = FindAllById(page_source)
    /\ pc' = "by_id"
    /\ UNCHANGED << page_source, iteration_domains, roundVars >>

\* A fallback that is tried whatever the id search found.
NothingFoundAlways == TRUE

\* if not search_result_elements, line 122
NothingFound == search_result_elements = << >>

\* lines 122-126
FindByClass ==
    /\ pc = "by_id"
    /\ NothingFound
    /\ search_result_elements' = FindAllByClass(page_source)
    /\ pc' = "by_class"
    /\ UNCHANGED << page_source, iteration_domains, roundVars >>

\* lines 129-133: str(element) is the markup of that element alone.
ExtractElements ==
    /\ pc \in { "by_id", "by_class" }
    /\ search_result_elements # << >>
    /\ iteration_domains' =
          UNION { extract_email_domains(<< search_result_elements[k] >>) :
                     k \in 1..Len(search_result_elements) }
    /\ pc' = "extracted"
    /\ UNCHANGED << page_source, search_result_elements, roundVars >>

\* lines 134-139
ExtractWholePage ==
    /\ pc = "by_class"
    /\ search_result_elements = << >>
    /\ iteration_domains' = extract_email_domains(page_source)
    /\ pc' = "extracted"
    /\ UNCHANGED << page_source, search_result_elements, roundVars >>

ExtractNext ==
    \/ FindById
    \/ FindByClass
    \/ ExtractElements
    \/ ExtractWholePage

ExtractSpec == ExtractInit /\ [][ExtractNext]_vars

(***************************************************************************)
(* Reading the record of the rounds.                                       *)
(***************************************************************************)
Last(log) == log[Len(log)]

\* The domains extracted in the rounds before round k.
FoundBefore(log, k) == UNION { log[j].domains : j \in 1..(k - 1) }

\* A step that ends a round with the given outcome.
RoundEnds(outcomes) ==
    /\ Len(round_log') = Len(round_log) + 1
    /\ Last(round_log').outcome \in outcomes

\* The function has been left: by a return or by a propagating exception.
Left == pc \in { "main", "done" }

Unclassified == (TriggerErrors \cup WaitErrors \cup PageErrors)
                    \ { "JavascriptException", "TimeoutException" }

(***************************************************************************)
(* C1.  Every run ends: each step lowers a non-negative measure, a state   *)
(* short of the end always has a next step, and at most                    *)
(* max_iterations + max_no_new_data rounds are ever begun.                 *)
(***************************************************************************)
Variant ==
    CASE pc = "done"     -> 0
      [] pc = "main"     -> 1
      [] pc = "finally"  -> 2
      [] pc = "epilogue" -> 3
      [] pc = "page"     -> 4 + 4 * (max_iterations + 1 - iteration)
      [] pc = "wait"     -> 5 + 4 * (max_iterations + 1 - iteration)
      [] pc = "trigger"  -> 6 + 4 * (max_iterations + 1 - iteration)
      [] pc = "loop"     -> 7 + 4 * (max_iterations + 1 - iteration)
      [] pc = "get"      -> 8 + 4 * (max_iterations + 1)
      [] pc = "setup"    -> 9 + 4 * (max_iterations + 1)

\* Some action's guard holds: the disjunction of the guards of Next.
CanStep ==
    \/ pc \in { "setup", "get", "trigger", "wait", "page", "epilogue", "finally" }
    \/ pc = "loop" /\ (LoopTest \/ ~LoopTest)
    \/ pc = "main" /\ (CallRaised \/ CallReturned)

\* CanStep is no wider than Next's enabledness.
CanStepSound == CanStep => ENABLED Next

RoundsBounded == Len(trigger_calls) <= max_iterations + max_no_new_data

C1_Terminates ==
    /\ Variant >= 0 /\ CanStep /\ RoundsBounded
    /\ [][ /\ Variant' < Variant
           /\ Variant' >= 0
           /\ RoundsBounded'
           /\ (pc' # "done" => CanStep') ]_vars

\* A run that used every round the cap allows, with timeouts among them.
C1_Witness ==
    /\ pc = "done"
    /\ max_iterations = 4
    /\ Len(round_log) = 4
    /\ \E k \in 1..4 : round_log[k].outcome = "TimeoutException"
    /\ \E k \in 1..4 : round_log[k].outcome = "ok"

(***************************************************************************)
(* C2.  driver.quit() runs exactly once for a session that was created:    *)
(* never before the function is left, never twice, and once on every path  *)
(* out of the function.                                                    *)
(***************************************************************************)
C2_QuitExactlyOnce ==
    /\ sessions <= 1
    /\ quits <= sessions
    /\ (~Left => quits = 0)
    /\ (Left /\ sessions = 1 => quits = 1)

\* Left through a failed navigation, outside the round body.
C2_Witness ==
    /\ pc = "done"
    /\ exc = "WebDriverException"
    /\ sessions = 1
    /\ quits = 1

(***************************************************************************)
(* C3.  No step shrinks the accumulated set.                               *)
(***************************************************************************)
C3_Monotonic == [][all_domains \subseteq all_domains']_vars

\* Three domains accumulated over rounds of every recoverable kind.
C3_Witness ==
    /\ Cardinality(all_domains) >= 3
    /\ \E k \in 1..Len(round_log) : round_log[k].outcome = "TimeoutException"
    /\ \E k \in 1..Len(round_log) :
          /\ round_log[k].outcome = "ok"
          /\ round_log[k].domains \subseteq FoundBefore(round_log, k)
          /\ round_log[k].domains # {}

(***************************************************************************)
(* C4.  The spec's example, threshold 2 and two rounds both returning      *)
(* {"@moe.gov.sg"}.                                                        *)
(***************************************************************************)
MoeRound == [ outcome |-> "ok", domains |-> { "@moe.gov.sg" } ]

FirstRoundsMoe(n) ==
    /\ max_no_new_data = 2
    /\ Len(round_log) >= n
    /\ \A k \in 1..n : round_log[k] = MoeRound

EveryRoundOneNew ==
    /\ Len(round_log) = Len(trigger_calls)
    /\ \A k \in 1..Len(round_log) :
          /\ round_log[k].outcome = "ok"
          /\ Cardinality(round_log[k].domains \ FoundBefore(round_log, k)) = 1

C5_CapReached ==
    EveryRoundOneNew =>
        /\ state \in { "NOT_STARTED", "RUNNING", "STOPPED_CAP_REACHED" }
        /\ Cardinality(all_domains) = Len(round_log)
        /\ (state = "STOPPED_CAP_REACHED" =>
               /\ Len(trigger_calls) = max_iterations
               /\ Cardinality(all_domains) = max_iterations)
        /\ (Left /\ state = "STOPPED_CAP_REACHED" =>
               /\ returned = << all_domains >>
               /\ Cardinality(returned[1]) = max_iterations)

\* The spec's instance: cap 5, five rounds, five domains.
C5_Witness ==
    /\ EveryRoundOneNew
    /\ max_iterations = 5
    /\ pc = "done"
    /\ state = "STOPPED_CAP_REACHED"
    /\ Len(trigger_calls) = 5
    /\ Cardinality(returned[1]) = 5

(***************************************************************************)
(* C6.  A successful round sets the counter to 0 if it extracted a domain  *)
(* not yet accumulated and adds 1 to it otherwise, and leaves the          *)
(* accumulated set equal to its old value united with the extracted set.   *)
(***************************************************************************)
C6_SuccessfulRound ==
    [][ RoundEnds({ "ok" }) =>
          LET found == Last(round_log').domains
          IN  /\ consecutive_no_new_data' =
                    IF found \ all_domains # {} THEN 0
                    ELSE consecutive_no_new_data + 1
              /\ all_domains' = all_domains \cup found ]_vars

\* A round that extracted one known and one new domain after a no-progress round.
C6_Witness ==
    /\ Len(round_log) >= 3
    /\ Last(round_log).outcome = "ok"
    /\ Last(round_log).domains \cap FoundBefore(round_log, Len(round_log)) # {}
    /\ Last(round_log).domains \ FoundBefore(round_log, Len(round_log)) # {}
    /\ round_log[Len(round_log) - 1].outcome = "ok"
    /\ round_log[Len(round_log) - 1].domains # {}
    /\ round_log[Len(round_log) - 1].domains
          \subseteq FoundBefore(round_log, Len(round_log) - 1)
    /\ consecutive_no_new_data = 0

(***************************************************************************)
(* C7.  A timeout adds 1 to the counter and leaves the accumulated set     *)
(* alone; below the threshold the loop goes on with the next iteration     *)
(* index, at the threshold it stops for no progress; it never stops the    *)
(* run as fatal.                                                           *)
(***************************************************************************)
C7_TimeoutRecoverable ==
    [][ RoundEnds({ "TimeoutException" }) =>
          /\ consecutive_no_new_data' = consecutive_no_new_data + 1
          /\ all_domains' = all_domains
          /\ state' # "STOPPED_FATAL"
          /\ IF consecutive_no_new_data + 1 >= max_no_new_data
             THEN /\ state' = "STOPPED_NO_PROGRESS"
                  /\ pc' = "epilogue"
             ELSE /\ state' = "RUNNING"
                  /\ iteration' = iteration + 1
                  /\ pc' = "loop" ]_vars

\* A timeout below the threshold, followed by a further round.
C7_Witness ==
    /\ Len(round_log) >= 2
    /\ round_log[1].outcome = "TimeoutException"
    /\ round_log[2].outcome = "ok"
    /\ trigger_calls = << 1, 2 >>
    /\ all_domains # {}

(***************************************************************************)
(* C8.  A failed trigger call stops the loop in that round: the            *)
(* accumulated set is unchanged, no trigger call follows, and the function *)
(* returns what the earlier rounds accumulated.                            *)
(***************************************************************************)
\* The round that ends with one of the outcomes stops the loop.
StopsLoop(outcomes) ==
    RoundEnds(outcomes) =>
        /\ state' = "STOPPED_FATAL"
        /\ pc' = "epilogue"
        /\ all_domains' = all_domains
        /\ consecutive_no_new_data' = consecutive_no_new_data

\* After such a round no trigger call, no round and no merge follows.
NothingFollows(outcomes) ==
    Len(round_log) > 0 /\ Last(round_log).outcome \in outcomes =>
        /\ trigger_calls' = trigger_calls
        /\ round_log' = round_log
        /\ all_domains' = all_domains

\* After such a round the function returns what the earlier rounds accumulated.
ReturnsAccumulated(outcomes) ==
    Left /\ Len(round_log) > 0 /\ Last(round_log).outcome \in outcomes =>
        /\ exc = "none"
        /\ returned = << all_domains >>
        /\ all_domains = FoundBefore(round_log, Len(round_log))

C8_TriggerErrorStops ==
    [][ /\ StopsLoop({ "JavascriptException" })
        /\ NothingFollows({ "JavascriptException" })
        /\ ReturnsAccumulated({ "JavascriptException" })' ]_vars

\* A trigger error in the third round, after two domains were accumulated.
C8_Witness ==
    /\ pc = "done"
    /\ Len(round_log) = 3
    /\ Last(round_log).outcome = "JavascriptException"
    /\ trigger_calls = << 1, 2, 3 >>
    /\ Cardinality(returned[1]) = 2

(***************************************************************************)
(* C9.  An error in a round that is neither a trigger error nor a timeout  *)
(* stops the loop at once: no retry, no further round, and the function    *)
(* returns what was accumulated.                                           *)
(***************************************************************************)
C9_UnclassifiedErrorStops ==
    [][ /\ StopsLoop(Unclassified)
        /\ NothingFollows(Unclassified)
        /\ ReturnsAccumulated(Unclassified)' ]_vars

\* An unclassified error in the second round, after one domain was accumulated.
C9_Witness ==
    /\ pc = "done"
    /\ Len(round_log) = 2
    /\ Last(round_log).outcome \in Unclassified
    /\ state = "STOPPED_FATAL"
    /\ Cardinality(returned[1]) = 1

(***************************************************************************)
(* C10.  A run whose browser did not start is left with the error          *)
(* propagating to the caller: nothing was navigated, triggered, returned   *)
(* or written.                                                             *)
(***************************************************************************)
C10_SetupErrorAborts ==
    Left /\ sessions = 0 =>
        /\ exc = "RuntimeError"
        /\ returned = << >>
        /\ navigations = 0
        /\ trigger_calls = << >>
        /\ round_log = << >>
        /\ all_domains = {}
        /\ text_file = << >>
        /\ json_file = << >>

C10_Witness ==
    /\ pc = "done"
    /\ sessions = 0
    /\ exc = "RuntimeError"

(***************************************************************************)
(* C11.  The files at the end of a run that returned a set.                *)
(***************************************************************************)
Returned == pc = "done" /\ exc = "none" /\ returned # << >>

\* C11 as claimed: whatever the returned set holds, both files are written.
C11_AsClaimed ==
    Returned => text_file # << >> /\ json_file # << >>

\* C11 as amended: a returned set that is not empty is written to both files;
\* an empty one is written to neither; nothing is written before main() has
\* the set.
C11_SavedUnlessEmpty ==
    /\ (Returned /\ returned[1] # {} =>
           /\ text_file # << >> /\ json_file # << >>
           /\ { text_file[1][i] : i \in 1..Len(text_file[1]) } = returned[1]
           /\ { json_file[1][i] : i \in 1..Len(json_file[1]) } = returned[1])
    /\ (Returned /\ returned[1] = {} => text_file = << >> /\ json_file = << >>)
    /\ (pc # "done" => text_file = << >> /\ json_file = << >>)

\* A run stopped by an error in its third round, its two domains saved.
C11_Witness ==
    /\ Returned
    /\ state = "STOPPED_FATAL"
    /\ Cardinality(returned[1]) = 2
    /\ text_file # << >>
    /\ json_file # << >>

(***************************************************************************)
(* C12.  Each file lists exactly the elements of the returned set, each    *)
(* once, in ascending order of their code points, and the two files hold   *)
(* the same sequence.                                                      *)
(***************************************************************************)
ListsAscending(file, S) ==
    /\ Len(file) = Cardinality(S)
    /\ { file[i] : i \in 1..Len(file) } = S
    /\ \A i \in 1..Len(file) : \A j \in 1..Len(file) :
          i < j => LexLess(CodePoints(file[i]), CodePoints(file[j]))

C12_SortedArtifacts ==
    text_file # << >> \/ json_file # << >> =>
        /\ Returned
        /\ text_file # << >> /\ json_file # << >>
        /\ ListsAscending(text_file[1], returned[1])
        /\ ListsAscending(json_file[1], returned[1])
        /\ text_file[1] = json_file[1]

\* Four domains, found in descending order, saved in ascending order.
C12_Witness ==
    /\ Returned
    /\ Len(round_log) = 4
    /\ round_log[1].domains = { "@mom.gov.sg" }
    /\ round_log[2].domains = { "@moh.gov.sg" }
    /\ round_log[3].domains = { "@mha.gov.sg" }
    /\ round_log[4].domains = { "@mfa.gov.sg" }
    /\ text_file = << << "@mfa.gov.sg", "@mha.gov.sg", "@moh.gov.sg", "@mom.gov.sg" >> >>
    /\ json_file = text_file

(***************************************************************************)
(* C16.  The k-th LoadData call passes k, and the index grows by exactly 1 *)
(* in every round that does not stop the loop and in no other step.        *)
(***************************************************************************)
ArgumentsCount == \A k \in 1..Len(trigger_calls) : trigger_calls[k] = k

IndexFollowsCalls ==
    state = "RUNNING" =>
        iteration = IF pc \in { "wait", "page" } THEN Len(trigger_calls)
                    ELSE Len(trigger_calls) + 1

C16_ArgumentsInOrder ==
    /\ ArgumentsCount /\ iteration = 1
    /\ [][ /\ ArgumentsCount'
           /\ IndexFollowsCalls'
           /\ (RoundEnds({ "ok", "TimeoutException" }) /\ state' = "RUNNING"
                  => iteration' = iteration + 1)
           /\ (iteration' # iteration
                  => iteration' = iteration + 1 /\ pc' = "loop") ]_vars

\* Four calls, the second and third rounds timeouts.
C16_Witness ==
    /\ trigger_calls = << 1, 2, 3, 4 >>
    /\ Len(round_log) = 3
    /\ round_log[1].outcome = "ok"
    /\ round_log[2].outcome = "TimeoutException"
    /\ round_log[3].outcome = "TimeoutException"
    /\ pc = "wait"

(***************************************************************************)
(* C17.  The counter is the number of rounds at the end of the record that *)
(* were timeouts or successful rounds adding no domain, in any mixture;    *)
(* the loop stops for no progress only with max_no_new_data such rounds    *)
(* last, and while it runs the counter is below max_no_new_data and at     *)
(* most iteration - 1.                                                     *)
(***************************************************************************)
NoProgressRound(log, k) ==
    \/ log[k].outcome = "TimeoutException"
    \/ /\ log[k].outcome = "ok"
       /\ log[k].domains \subseteq FoundBefore(log, k)

RECURSIVE TrailingNoProgress(_, _)
TrailingNoProgress(log, k) ==
    IF k = 0 \/ ~NoProgressRound(log, k) THEN 0
    ELSE 1 + TrailingNoProgress(log, k - 1)

C17_NoProgressCounter ==
    /\ (state \in { "RUNNING", "STOPPED_NO_PROGRESS", "STOPPED_CAP_REACHED" } =>
           consecutive_no_new_data = TrailingNoProgress(round_log, Len(round_log)))
    /\ (state = "STOPPED_NO_PROGRESS" =>
           /\ consecutive_no_new_data = max_no_new_data
           /\ Len(round_log) >= max_no_new_data
           /\ \A k \in (Len(round_log) - max_no_new_data + 1)..Len(round_log) :
                 NoProgressRound(round_log, k))
    /\ (state = "RUNNING" =>
           /\ consecutive_no_new_data < max_no_new_data
           /\ consecutive_no_new_data <= iteration - 1)

\* Stopped at threshold 3 by a timeout, a round without a new domain and a
\* timeout, after a round that added a domain.
C17_Witness ==
    /\ state = "STOPPED_NO_PROGRESS"
    /\ max_no_new_data = 3
    /\ Len(round_log) = 5
    /\ round_log[2].outcome = "ok" /\ ~NoProgressRound(round_log, 2)
    /\ round_log[3].outcome = "TimeoutException"
    /\ round_log[4].outcome = "ok" /\ round_log[4].domains # {}
    /\ round_log[5].outcome = "TimeoutException"

(***************************************************************************)
(* C18.  The accumulated set is the union of the sets extracted in the     *)
(* successful rounds so far; it changes only in a step that ends a         *)
(* successful round, and a round that ends otherwise leaves it alone.      *)
(***************************************************************************)
ExtractedSoFar ==
    UNION { round_log[k].domains :
               k \in { j \in 1..Len(round_log) : round_log[j].outcome = "ok" } }

C18_UnionOfRounds ==
    /\ all_domains = ExtractedSoFar
    /\ [][ /\ all_domains' = ExtractedSoFar'
           /\ (all_domains' # all_domains => RoundEnds({ "ok" }))
           /\ (RoundEnds(TriggerErrors \cup WaitErrors \cup PageErrors)
                  => all_domains' = all_domains) ]_vars

\* Three domains from two successful rounds, with a timeout between them
\* and an error after them.
C18_Witness ==
    /\ Len(round_log) = 4
    /\ round_log[1].outcome = "ok"
    /\ round_log[2].outcome = "TimeoutException"
    /\ round_log[3].outcome = "ok"
    /\ round_log[4].outcome = "WebDriverException"
    /\ Cardinality(all_domains) = 3
    /\ all_domains = round_log[1].domains \cup round_log[3].domains

(***************************************************************************)
(* C19.  A failed driver.get(url) is not a round error: no LoadData call   *)
(* and no round follows, the error propagates and no set is returned or    *)
(* saved, and the session is released exactly once.                        *)
(***************************************************************************)
NavigationFailed == navigations = 1 /\ state = "NOT_STARTED"

C19_NavigationErrorPropagates ==
    NavigationFailed =>
        /\ exc = "WebDriverException"
        /\ pc \in { "finally", "main", "done" }
        /\ returned = << >>
        /\ trigger_calls = << >>
        /\ round_log = << >>
        /\ text_file = << >> /\ json_file = << >>
        /\ quits = IF Left THEN 1 ELSE 0

C19_Witness ==
    /\ NavigationFailed
    /\ pc = "done"
    /\ quits = 1

(***************************************************************************)
(* C13.  Every extracted element is lowercase and has the form "@", one or *)
(* more characters of the class, ".gov.sg".                                *)
(***************************************************************************)
IsLowercase(str) ==
    \A k \in 1..Len(str) : str[k] \notin DOMAIN UpperToLower \cup { "I_DOT" }

HasDomainForm(str) ==
    /\ Len(str) >= Len(Suffix) + 2
    /\ str[1] = "@"
    /\ \A k \in 2..(Len(str) - Len(Suffix)) :
          \/ str[k] \in { ".", "-", "_" }
          \/ str[k] \in LowerLetters \cup DOMAIN UpperToLower \cup Digits
          \/ str[k] \in { "LONG_S", "I_DOT" }
    /\ SubSeq(str, Len(str) - Len(Suffix) + 1, Len(str)) = Suffix

\* C13 as claimed, of every set the extraction yields.
C13_AsClaimed ==
    pc = "extracted" =>
        \A d \in iteration_domains : IsLowercase(d) /\ HasDomainForm(d)

(***************************************************************************)
(* C14.  The example text yields exactly "@moe.gov.sg" and "@moh.gov.sg".  *)
(***************************************************************************)
ExampleDomains ==
    { << "@", "m", "o", "e", ".", "g", "o", "v", ".", "s", "g" >>,
      << "@", "m", "o", "h", ".", "g", "o", "v", ".", "s", "g" >> }

C14_Example ==
    pc = "extracted" /\ page_source = << Plain(ExampleText) >> =>
        iteration_domains = ExampleDomains

C14_Witness ==
    /\ pc = "extracted"
    /\ page_source = << Plain(ExampleText) >>
    /\ Cardinality(iteration_domains) = 2

(***************************************************************************)
(* C15.  The scope of a round's extraction: the elements whose id matches  *)
(* if there are any, else the elements whose class matches if there are    *)
(* any, else the whole page, whose extraction is then the round's set.     *)
(***************************************************************************)
WithId == { k \in 1..Len(page_source) : IdMatches(page_source[k]) }
WithClass == { k \in 1..Len(page_source) : ClassMatches(page_source[k]) }

ExtractedFrom(ks) == UNION { extract_email_domains(<< page_source[k] >>) : k \in ks }

ScopedTo(ks) ==
    /\ Len(search_result_elements) = Cardinality(ks)
    /\ { search_result_elements[j] : j \in 1..Len(search_result_elements) }
          = { page_source[k] : k \in ks }
    /\ iteration_domains = ExtractedFrom(ks)

C15_ScopeOrder ==
    pc = "extracted" =>
        IF WithId # {} THEN ScopedTo(WithId)
        ELSE IF WithClass # {} THEN ScopedTo(WithClass)
        ELSE /\ search_result_elements = << >>
             /\ iteration_domains = extract_email_domains(page_source)

\* Scoped by class, leaving out a domain that the page holds elsewhere.
C15_Witness ==
    /\ pc = "extracted"
    /\ WithId = {}
    /\ WithClass # {}
    /\ iteration_domains # {}
    /\ iteration_domains # extract_email_domains(page_source)

====
